---- MODULE Spec2Model ----
(***************************************************************************)
(* State-machine model of the jayce deployment orchestrator:               *)
(*   src/bin/jayce.rs              main (configuration check)              *)
(*   src/tasks/deploy_contracts.rs deploy_contracts, run_core,             *)
(*                                 create_profile, remove_profile,         *)
(*                                 run_deploy_command, get_named_addresses *)
(*   src/utils.rs                  generate_account_and_faucet             *)
(*   src/deploy_config.rs          AptosNetwork::rest_url / faucet_url     *)
(* External collaborators (prompt, faucet, aptos init, publish, file       *)
(* system) are nondeterministic inputs of the action that calls them.      *)
(* config.publish_code and config.output_json are passed through to the    *)
(* publish call and to fs::write unread and carry no state here; a         *)
(* package directory is identified by its position in modules_path.        *)
(***************************************************************************)
EXTENDS Integers, Sequences, FiniteSets, TLC

\* ------------------------------------------------------------- bounds
MaxPkgs == 2

\* the address names configurations and manifests are drawn from
NameList == <<"lib_addr", "cpu_addr", "verifier_addr">>
Names == {NameList[i] : i \in 1..Len(NameList)}
NameIdx(n) == CHOOSE i \in 1..Len(NameList) : NameList[i] = n

\* ------------------------------------------------------------- program constants
DEPLOYER_PROFILE == "jayce_deployer"
USER_PROFILE == "default"
OTHER_PROFILE == "testnet_admin"

ModuleTypes == {"Account", "Object"}
Networks == {"Mainnet", "Testnet", "Devnet", "Local"}

\* AptosNetwork::rest_url
rest_url(net) == IF net = "Local" THEN "None" ELSE "default"
\* AptosNetwork::faucet_url
faucet_url(net) == IF net \in {"Testnet", "Devnet"} THEN "default" ELSE "None"

\* faulty variants of ChunkedPublishNetworks: the development network admitted,
\* the test network left out
ChunkedPublishNetworksWithDevnet == {"Mainnet", "Testnet", "Devnet"}
ChunkedPublishNetworksMainnetOnly == {"Mainnet"}

\* the networks run_core retries a too large package on with chunked publish
ChunkedPublishNetworks == {"Mainnet", "Testnet"}

\* ------------------------------------------------------------- addresses
SenderOfKey == [kind |-> "key", id |-> 0]
SenderGenerated == [kind |-> "generated", id |-> 0]
NoAddr == [kind |-> "none", id |-> 0]
PreAddr(n) == [kind |-> "pre", id |-> NameIdx(n)]
ObjAddr(i) == [kind |-> "object", id |-> i]

EmptyMap == [n \in {} |-> NoAddr]
\* faulty variant of Insert: the new entry replaces the map
InsertOnly(m, k, v) == [x \in {k} |-> v]

\* HashMap::insert
Insert(m, k, v) == [x \in DOMAIN m \cup {k} |-> IF x = k THEN v ELSE m[x]]

Min(a, b) == IF a < b THEN a ELSE b
SeqsUpTo(S, n) == UNION {[1..k -> S] : k \in 0..n}

VARIABLES
    config,              \* DeployConfig
    pc,                  \* position of main / deploy_contracts
    sender_addr,         \* deploy_contracts: sender_addr
    store,               \* profiles of .aptos/config.yaml ({} = no store)
    profile_created,     \* create_profile returned Ok
    faucet_calls,        \* faucet_client.fund calls issued
    tpc,                 \* position of the spawned task (run_core)
    lock,                \* holder of the report_info mutex
    idx,                 \* run_core: position of the zip iterator
    deployed_addresses,  \* run_core: the local AddressBook
    report_info,         \* the shared Vec<TxReport>
    manifest,            \* the Move.toml address table last loaded
    inflight,            \* publish calls issued and not yet returned
    publish_result,      \* what the last returned publish call returned
    prompt_answer,       \* answer to the last chunked-publish prompt
    calls,               \* per package: publish calls issued so far
    prompts,             \* chunked-publish prompts shown so far
    resolutions,         \* get_named_addresses calls so far
    pkg_state,           \* per package: state of its turn
    result,              \* what the spawned task's JoinHandle yields
    report_file,         \* content of config.output_json
    report_writes,       \* report writes attempted
    write_failed,        \* the report write returned an error
    ret,                 \* what main returns
    keygen_prompt,       \* answer to the key-generation prompt
    release_calls,       \* remove_profile calls so far
    store0,              \* the profiles the store held when the run began
    run                  \* which invocation of the tool this is, and its seed

vars == <<config, pc, sender_addr, store, profile_created, faucet_calls, tpc, lock,
          idx, deployed_addresses, report_info, manifest, inflight, publish_result,
          prompt_answer, calls, prompts, resolutions, pkg_state, result,
          report_file, report_writes, write_failed, ret, keygen_prompt,
          release_calls, store0, run>>

outerVars == <<pc, sender_addr, store, profile_created, faucet_calls,
               report_file, report_writes, write_failed, ret, keygen_prompt,
               release_calls, store0, run>>
taskVars == <<tpc, lock, idx, deployed_addresses, report_info, manifest, inflight,
              publish_result, prompt_answer, calls, prompts, resolutions,
              pkg_state, result>>

\* ------------------------------------------------------------- configurations
PrePopulated == {[n \in S |-> PreAddr(n)] : S \in SUBSET Names}

Configs ==
    [ private_key : {"None", "Valid", "Invalid"},
      module_type : ModuleTypes,
      modules_path : {[i \in 1..k |-> i] : k \in 0..MaxPkgs},
      addresses_name : SeqsUpTo(Names, MaxPkgs),
      network : Networks,
      yes : BOOLEAN,
      deployed_addresses : PrePopulated,
      rest_url : {"None", "override"},
      faucet_url : {"None", "override"} ]

NoManifest == [loaded |-> FALSE, names |-> {}]
NoReport == [written |-> FALSE, account |-> NoAddr, network |-> "none", info |-> <<>>]

FirstRun == [n |-> 1, seed |-> "none", first_ret |-> "none"]

\* the state in which main starts, for a set of configurations and a set of
\* credential-store contents
InitWith(cfgs, stores) ==
    /\ config \in cfgs
    /\ pc = "main"
    /\ sender_addr = NoAddr
    /\ store \in stores
    /\ store0 = store
    /\ run = FirstRun
    /\ keygen_prompt = "none"
    /\ release_calls = 0
    /\ profile_created = FALSE
    /\ faucet_calls = 0
    /\ tpc = "idle"
    /\ lock = "free"
    /\ idx = 0
    /\ deployed_addresses = EmptyMap
    /\ report_info = <<>>
    /\ manifest = NoManifest
    /\ inflight = {}
    /\ publish_result = "none"
    /\ prompt_answer = "none"
    /\ calls = [i \in 1..Len(config.addresses_name) |-> 0]
    /\ prompts = 0
    /\ resolutions = 0
    /\ pkg_state = [i \in 1..Len(config.addresses_name) |-> "Pending"]
    /\ result = "none"
    /\ report_file = NoReport
    /\ report_writes = 0
    /\ write_failed = FALSE
    /\ ret = "none"

Init == InitWith(Configs, {{}, {USER_PROFILE}})

\* ------------------------------------------------------------- main
\* faulty variant of Main: deploy_contracts is called without the length check
MainUnchecked ==
    /\ pc = "main"
    /\ pc' = "provision"
    /\ UNCHANGED <<config, sender_addr, store, profile_created, faucet_calls,
                   report_file, report_writes, write_failed, ret, keygen_prompt,
                   release_calls, store0, run>>
    /\ UNCHANGED taskVars

\* ensure!(modules_path.len() == addresses_name.len()) and the call of
\* deploy_contracts
Main ==
    /\ pc = "main"
    /\ IF Len(config.modules_path) = Len(config.addresses_name)
       THEN /\ pc' = "provision"
            /\ ret' = ret
       ELSE /\ pc' = "returned"
            /\ ret' = "ConfigInvariantError"
    /\ UNCHANGED <<config, sender_addr, store, profile_created, faucet_calls,
                   report_file, report_writes, write_failed, keygen_prompt,
                   release_calls, store0, run>>
    /\ UNCHANGED taskVars

\* ------------------------------------------------------------- deploy_contracts
PromptAnswers == {"confirm", "decline", "error"}

\* explicit override, else the network's default
ResolveEndpoint(override, default) == IF override # "None" THEN override ELSE default

\* faulty variant of Declined: the answer to the prompt is not read
DeclinedNever(yes, answer) == FALSE

\* deploy_contracts: `!config.yes && !Confirm...interact()?`
Declined(yes, answer) == ~yes /\ answer = "decline"

\* deploy_contracts, the match on config.private_key, with
\* generate_account_and_faucet inlined
Provision ==
    /\ pc = "provision"
    /\ \E answer \in PromptAnswers, fund \in {"ok", "fail"} :
         /\ keygen_prompt' = IF config.private_key = "None" /\ ~config.yes
                             THEN answer ELSE keygen_prompt
         /\ LET faucet == ResolveEndpoint(config.faucet_url, faucet_url(config.network))
                rest == ResolveEndpoint(config.rest_url, rest_url(config.network))
                Return(r) == /\ pc' = "returned"
                             /\ ret' = r
                             /\ UNCHANGED <<config, sender_addr, faucet_calls>>
            IN  CASE config.private_key = "Valid" ->
                       /\ sender_addr' = SenderOfKey
                       /\ pc' = "create_profile"
                       /\ UNCHANGED <<config, faucet_calls, ret>>
                  [] config.private_key = "Invalid" -> Return("KeyDecodeError")
                  [] config.private_key = "None" ->
                       IF ~config.yes /\ answer = "error" THEN Return("PromptError")
                       ELSE IF Declined(config.yes, answer) THEN Return("Ok")
                       ELSE IF faucet = "None" THEN Return("FaucetUrlNotFound")
                       ELSE IF rest = "None" THEN Return("RestUrlNotFound")
                       ELSE IF fund = "fail"
                       THEN /\ faucet_calls' = faucet_calls + 1
                            /\ pc' = "returned"
                            /\ ret' = "FaucetError"
                            /\ UNCHANGED <<config, sender_addr>>
                       ELSE /\ faucet_calls' = faucet_calls + 1
                            /\ config' = [config EXCEPT !.private_key = "Valid"]
                            /\ sender_addr' = SenderGenerated
                            /\ pc' = "create_profile"
                            /\ ret' = ret
    /\ UNCHANGED <<store, profile_created, report_file, report_writes, write_failed,
                   release_calls, store0, run>>
    /\ UNCHANGED taskVars

\* create_profile: the two expect()s panic in the caller's own task; aptos init
\* either adds the profile or fails
CreateProfile ==
    /\ pc = "create_profile"
    /\ \E init \in {"ok", "fail"} :
         LET rest == ResolveEndpoint(config.rest_url, rest_url(config.network))
             faucet == ResolveEndpoint(config.faucet_url, faucet_url(config.network))
         IN  IF rest = "None" \/ faucet = "None"
             THEN /\ pc' = "panicked"
                  /\ UNCHANGED <<store, profile_created, ret>>
             ELSE IF init = "fail"
             THEN /\ pc' = "returned"
                  /\ ret' = "InitError"
                  /\ UNCHANGED <<store, profile_created>>
             ELSE /\ store' = store \cup {DEPLOYER_PROFILE}
                  /\ profile_created' = TRUE
                  /\ pc' = "spawn"
                  /\ ret' = ret
    /\ UNCHANGED <<config, sender_addr, faucet_calls, report_file, report_writes,
                   write_failed, keygen_prompt, release_calls, store0, run>>
    /\ UNCHANGED taskVars

\* ------------------------------------------------------------- the spawned task
NPkgs == Min(Len(config.modules_path), Len(config.addresses_name))

\* tokio::spawn: the task takes the report_info lock and enters run_core, which
\* clones config.deployed_addresses
TaskStart ==
    /\ pc = "spawn"
    /\ lock = "free"
    /\ pc' = "join"
    /\ tpc' = "loop"
    /\ lock' = "task"
    /\ idx' = 1
    /\ deployed_addresses' = config.deployed_addresses
    /\ UNCHANGED <<config, sender_addr, store, profile_created, faucet_calls,
                   report_file, report_writes, write_failed, ret, keygen_prompt,
                   release_calls, store0, run>>
    /\ UNCHANGED <<report_info, manifest, inflight, publish_result, prompt_answer,
                   calls, prompts, resolutions, pkg_state, result>>

\* faulty variant of Finish: the MutexGuard outlives the task
FinishHoldingLock(r) ==
    /\ tpc' = "finished"
    /\ result' = r
    /\ lock' = lock

\* the task ends (return or panic): the JoinHandle yields r and the MutexGuard
\* is dropped
Finish(r) ==
    /\ tpc' = "finished"
    /\ result' = r
    /\ lock' = "free"

\* faulty variant of Fail: the error is swallowed and the loop goes on with the next
\* package
FailAndContinue(e) ==
    /\ pkg_state' = [pkg_state EXCEPT ![idx] = "Failed"]
    /\ idx' = idx + 1
    /\ tpc' = "loop"
    /\ UNCHANGED <<lock, result>>

\* run_core returns Err(e) during the turn of package idx
Fail(e) ==
    /\ Finish(e)
    /\ pkg_state' = [pkg_state EXCEPT ![idx] = "Failed"]
    /\ idx' = idx

\* faulty variant of AlreadyDeployed: only the configuration's map is consulted
AlreadyDeployedInConfig(name) == name \in DOMAIN config.deployed_addresses

\* the skip test of run_core: the book already holds the address name
AlreadyDeployed(name) == name \in DOMAIN deployed_addresses

\* for-loop exhausted: Ok(())
LoopDone ==
    /\ tpc = "loop"
    /\ idx > NPkgs
    /\ Finish("Ok")
    /\ UNCHANGED <<config, idx, deployed_addresses, report_info, manifest, inflight,
                   publish_result, prompt_answer, calls, prompts, resolutions,
                   pkg_state>>
    /\ UNCHANGED outerVars

\* faulty variant of Skip: `continue` does not advance the iterator
SkipStay ==
    /\ tpc = "loop"
    /\ idx <= NPkgs
    /\ AlreadyDeployed(config.addresses_name[idx])
    /\ pkg_state' = [pkg_state EXCEPT ![idx] = "Skipped"]
    /\ idx' = idx
    /\ UNCHANGED <<config, tpc, lock, deployed_addresses, report_info, manifest,
                   inflight, publish_result, prompt_answer, calls, prompts,
                   resolutions, result>>
    /\ UNCHANGED outerVars

\* "already deployed, skipping...": continue
Skip ==
    /\ tpc = "loop"
    /\ idx <= NPkgs
    /\ AlreadyDeployed(config.addresses_name[idx])
    /\ pkg_state' = [pkg_state EXCEPT ![idx] = "Skipped"]
    /\ idx' = idx + 1
    /\ UNCHANGED <<config, tpc, lock, deployed_addresses, report_info, manifest,
                   inflight, publish_result, prompt_answer, calls, prompts,
                   resolutions, result>>
    /\ UNCHANGED outerVars

\* what the manifest loader can yield: no table (Move.toml missing or malformed)
\* or the key set of its addresses table
Manifests == {NoManifest} \cup [loaded : {TRUE}, names : SUBSET Names]

\* get_named_addresses
get_named_addresses(table, address_name, module_type) ==
    IF ~table.loaded THEN [err |-> "ManifestError", names |-> {}]
    ELSE IF address_name \notin table.names
    THEN [err |-> "AddressNameNotFound", names |-> {}]
    ELSE [err |-> "none",
          names |-> IF module_type = "Object" THEN table.names \ {address_name}
                    ELSE table.names]

\* faulty variant of Unresolved: a name the book lacks is never a fault (it is bound to
\* the sender like the package's own name)
UnresolvedNever(names, book, address_name) == {}

\* the names for which the closure of run_core panics
Unresolved(names, book, address_name) ==
    {n \in names : n \notin DOMAIN book /\ n # address_name}

\* faulty variant of NamedAddresses: every name is bound to the sender
NamedAddressesAllSender(names, book, sender) == [n \in names |-> sender]

\* the --named-addresses list built by run_core
NamedAddresses(names, book, sender) ==
    [n \in names |-> IF n \in DOMAIN book THEN book[n] ELSE sender]

\* the argument vector of one publish call
PublishArgs(i, named, chunked) ==
    [ pkg |-> i,
      command |-> IF config.module_type = "Object"
                  THEN "create-object-and-publish-package" ELSE "publish",
      package_dir |-> config.modules_path[i],
      address_name |-> IF config.module_type = "Object"
                       THEN config.addresses_name[i] ELSE "none",
      named_addresses |-> named,
      assume_yes |-> config.yes,
      chunked |-> chunked ]

\* run_core from "Deploying package ..." to the first run_deploy_command call
Resolve ==
    /\ tpc = "loop"
    /\ idx <= NPkgs
    /\ ~AlreadyDeployed(config.addresses_name[idx])
    /\ \E table \in Manifests :
         LET own == config.addresses_name[idx]
             got == get_named_addresses(table, own, config.module_type)
         IN  /\ manifest' = table
             /\ resolutions' = resolutions + 1
             /\ IF got.err # "none"
                THEN /\ Fail(got.err)
                     /\ UNCHANGED <<inflight, calls>>
                ELSE IF Unresolved(got.names, deployed_addresses, own) # {}
                THEN /\ Fail("DependencyOrderPanic")
                     /\ UNCHANGED <<inflight, calls>>
                ELSE /\ inflight' = {PublishArgs(idx,
                            NamedAddresses(got.names, deployed_addresses, sender_addr),
                            FALSE)}
                     /\ calls' = [calls EXCEPT ![idx] = @ + 1]
                     /\ pkg_state' = [pkg_state EXCEPT ![idx] = "Publishing"]
                     /\ tpc' = "publishing"
                     /\ UNCHANGED <<lock, idx, result>>
    /\ UNCHANGED <<config, deployed_addresses, report_info, publish_result,
                   prompt_answer, prompts>>
    /\ UNCHANGED outerVars

\* what a successful run_deploy_command yields for the call: the transaction
\* summaries of that invocation (passed through unread) and the object address
PublishOutcome(call) ==
    [ tx_info |-> [pkg |-> call.pkg, chunked |-> call.chunked],
      object_addr |-> IF call.command = "create-object-and-publish-package"
                      THEN ObjAddr(call.pkg) ELSE NoAddr ]

\* the new Vec<TxReport>
Push(reports, r) == Append(reports, r)

\* faulty variant of Record: the sender address is taken in both modes
RecordAtSender(call, out) ==
    /\ deployed_addresses' =
          Insert(deployed_addresses, config.addresses_name[idx], sender_addr)
    /\ report_info' = Push(report_info,
          [ module_path |-> config.modules_path[idx],
            address_name |-> config.addresses_name[idx],
            deployed_at |-> sender_addr,
            tx_info |-> out.tx_info ])
    /\ pkg_state' = [pkg_state EXCEPT ![idx] = "Recorded"]
    /\ idx' = idx + 1
    /\ tpc' = "loop"
    /\ UNCHANGED <<lock, result>>

\* run_core after the match: insert into the book, push the TxReport, next package
Record(call, out) ==
    LET deployed_at == IF config.module_type = "Account" THEN sender_addr
                       ELSE out.object_addr
    IN  /\ deployed_addresses' =
              Insert(deployed_addresses, config.addresses_name[idx], deployed_at)
        /\ report_info' = Push(report_info,
              [ module_path |-> config.modules_path[idx],
                address_name |-> config.addresses_name[idx],
                deployed_at |-> deployed_at,
                tx_info |-> out.tx_info ])
        /\ pkg_state' = [pkg_state EXCEPT ![idx] = "Recorded"]
        /\ idx' = idx + 1
        /\ tpc' = "loop"
        /\ UNCHANGED <<lock, result>>

PublishResults == {"Ok", "PackageSizeExceeded", "Other"}

\* the first run_deploy_command returns: the match of run_core on its result
PublishReturn ==
    /\ tpc = "publishing"
    /\ \E call \in inflight, res \in PublishResults, answer \in PromptAnswers :
         /\ publish_result' = res
         /\ CASE res = "Ok" ->
                   /\ Record(call, PublishOutcome(call))
                   /\ inflight' = {}
                   /\ UNCHANGED <<prompt_answer, prompts, calls>>
              [] res = "Other" ->
                   /\ Fail("PublishError")
                   /\ inflight' = {}
                   /\ UNCHANGED <<deployed_addresses, report_info, prompt_answer,
                                  prompts, calls>>
              [] res = "PackageSizeExceeded" ->
                   IF config.network \notin ChunkedPublishNetworks
                   THEN /\ Fail("ChunkedPublishUnsupported")
                        /\ inflight' = {}
                        /\ UNCHANGED <<deployed_addresses, report_info,
                                       prompt_answer, prompts, calls>>
                   ELSE IF ~config.yes /\ answer # "confirm"
                   THEN /\ Fail(IF answer = "error" THEN "PromptError"
                                ELSE "PackageSizeExceeded")
                        /\ inflight' = {}
                        /\ prompt_answer' = answer
                        /\ prompts' = prompts + 1
                        /\ UNCHANGED <<deployed_addresses, report_info, calls>>
                   ELSE /\ inflight' = {[call EXCEPT !.chunked = TRUE]}
                        /\ calls' = [calls EXCEPT ![idx] = @ + 1]
                        /\ pkg_state' = [pkg_state EXCEPT ![idx] = "RetryingChunked"]
                        /\ prompt_answer' = IF config.yes THEN "none" ELSE answer
                        /\ prompts' = IF config.yes THEN prompts ELSE prompts + 1
                        /\ tpc' = "retrying"
                        /\ UNCHANGED <<lock, idx, result, deployed_addresses,
                                       report_info>>
    /\ UNCHANGED <<config, manifest, resolutions>>
    /\ UNCHANGED outerVars

\* faulty variant of RetryReturn: a chunked call that is too large again is
\* resubmitted once more
RetryReturnAgain ==
    /\ tpc = "retrying"
    /\ \E call \in inflight, res \in PublishResults :
         /\ publish_result' = res
         /\ CASE res = "Ok" ->
                   /\ Record(call, PublishOutcome(call))
                   /\ inflight' = {}
                   /\ calls' = calls
              [] res = "Other" ->
                   /\ Fail("PublishError")
                   /\ inflight' = {}
                   /\ UNCHANGED <<deployed_addresses, report_info, calls>>
              [] res = "PackageSizeExceeded" ->
                   /\ calls' = [calls EXCEPT ![idx] = @ + 1]
                   /\ UNCHANGED <<inflight, tpc, lock, idx, result, pkg_state,
                                  deployed_addresses, report_info>>
    /\ UNCHANGED <<config, manifest, resolutions, prompt_answer, prompts>>
    /\ UNCHANGED outerVars

\* the chunked run_deploy_command returns: `?` on its result
RetryReturn ==
    /\ tpc = "retrying"
    /\ \E call \in inflight, res \in PublishResults :
         /\ publish_result' = res
         /\ inflight' = {}
         /\ IF res = "Ok"
            THEN Record(call, PublishOutcome(call))
            ELSE /\ Fail(IF res = "Other" THEN "PublishError" ELSE "PackageSizeExceeded")
                 /\ UNCHANGED <<deployed_addresses, report_info>>
    /\ UNCHANGED <<config, manifest, resolutions, prompt_answer, prompts, calls>>
    /\ UNCHANGED outerVars

\* ------------------------------------------------------------- after the join
\* faulty variant of Taken: the list is emptied before the report is built from it
TakenAfterClear(reports) == <<>>

\* std::mem::take(&mut *report_info.lock().await): the records handed to the report
Taken(reports) == reports

\* faulty variant of WriteReport: the task's error is propagated before the
\* report is written
WriteReportOnSuccessOnly ==
    /\ pc = "join"
    /\ tpc = "finished"
    /\ lock = "free"
    /\ IF result = "Ok"
       THEN /\ report_writes' = report_writes + 1
            /\ report_info' = <<>>
            /\ report_file' = [ written |-> TRUE,
                                account |-> sender_addr,
                                network |-> config.network,
                                info |-> report_info ]
       ELSE UNCHANGED <<report_writes, report_info, report_file>>
    /\ pc' = "remove_profile"
    /\ UNCHANGED <<write_failed, ret>>
    /\ UNCHANGED <<config, sender_addr, store, profile_created, faucet_calls,
                   keygen_prompt, release_calls, store0, run>>
    /\ UNCHANGED <<tpc, lock, idx, deployed_addresses, manifest, inflight,
                   publish_result, prompt_answer, calls, prompts, resolutions,
                   pkg_state, result>>

\* fs::write of the DeployReport built from mem::take of the locked list; `?`
\* returns the write error at once
WriteReport ==
    /\ pc = "join"
    /\ tpc = "finished"
    /\ lock = "free"
    /\ \E write \in {"ok", "fail"} :
         /\ report_writes' = report_writes + 1
         /\ report_info' = <<>>
         /\ IF write = "ok"
            THEN /\ report_file' = [ written |-> TRUE,
                                     account |-> sender_addr,
                                     network |-> config.network,
                                     info |-> Taken(report_info) ]
                 /\ pc' = "remove_profile"
                 /\ UNCHANGED <<write_failed, ret>>
            ELSE /\ write_failed' = TRUE
                 /\ pc' = "returned"
                 /\ ret' = "ReportWriteError"
                 /\ UNCHANGED report_file
    /\ UNCHANGED <<config, sender_addr, store, profile_created, faucet_calls,
                   keygen_prompt, release_calls, store0, run>>
    /\ UNCHANGED <<tpc, lock, idx, deployed_addresses, manifest, inflight,
                   publish_result, prompt_answer, calls, prompts, resolutions,
                   pkg_state, result>>

\* faulty variant of remove_profile: the .aptos directory is removed whatever
\* else it holds
remove_profile_wipe(profiles) == {}

\* remove_profile on the profiles mapping of .aptos/config.yaml
remove_profile(profiles) ==
    IF Cardinality(profiles) = 1
    THEN IF DEPLOYER_PROFILE \in profiles THEN {} ELSE profiles
    ELSE profiles \ {DEPLOYER_PROFILE}

\* remove_profile()? and the final match on the task's result
RemoveProfile ==
    /\ pc = "remove_profile"
    /\ \E io \in {"ok", "fail"} :
         IF io = "fail"
         THEN /\ ret' = "RemoveProfileError"
              /\ UNCHANGED store
         ELSE /\ store' = remove_profile(store)
              /\ ret' = IF result = "DependencyOrderPanic" THEN "JoinError" ELSE result
    /\ pc' = "returned"
    /\ release_calls' = release_calls + 1
    /\ UNCHANGED <<config, sender_addr, profile_created, faucet_calls, report_file,
                   report_writes, write_failed, keygen_prompt, store0, run>>
    /\ UNCHANGED taskVars

Next ==
    \/ Main
    \/ Provision
    \/ CreateProfile
    \/ TaskStart
    \/ LoopDone
    \/ Skip
    \/ Resolve
    \/ PublishReturn
    \/ RetryReturn
    \/ WriteReport
    \/ RemoveProfile

Spec == Init /\ [][Next]_vars

\* ------------------------------------------------------------- properties
Finished(i) == pkg_state[i] \in {"Skipped", "Recorded"}
Aborted == result \notin {"none", "Ok"}
Last(q) == q[Len(q)]

\* C1: packages are processed strictly in input order with no overlap: no
\* publish call for package j has been issued unless every package i < j is
\* Skipped or Recorded, at most one publish call is outstanding, and while a
\* call for package j is outstanding no call for a later package has been issued.
C1_InOrderNoOverlap ==
    /\ Cardinality(inflight) <= 1
    /\ \A i \in DOMAIN calls : \A j \in DOMAIN calls :
         (i < j /\ calls[j] > 0) => Finished(i)
    /\ \A c \in inflight : \A j \in DOMAIN calls :
         j > c.pkg => calls[j] = 0

\* C1 witness: a publish call for a package is outstanding after an earlier
\* package has been published and recorded
C1_Witness ==
    \E c \in inflight : \E i \in DOMAIN calls :
        i < c.pkg /\ calls[i] > 0 /\ pkg_state[i] = "Recorded"

\* C2: when a package's turn comes and its address_name is in the AddressBook,
\* the step marks it Skipped, loads no manifest, issues no publish call, appends
\* no TransactionRecord, leaves the AddressBook unchanged and moves on to the
\* next package.
C2_SkipWhenPresent ==
    [][ (tpc = "loop" /\ idx <= NPkgs
            /\ config.addresses_name[idx] \in DOMAIN deployed_addresses)
        => /\ pkg_state'[idx] = "Skipped"
           /\ resolutions' = resolutions
           /\ manifest' = manifest
           /\ calls' = calls
           /\ inflight' = {}
           /\ report_info' = report_info
           /\ deployed_addresses' = deployed_addresses
           /\ idx' = idx + 1
           /\ tpc' = "loop" ]_vars

\* C2 witness: a package was skipped because an earlier package of the same run
\* deployed its address_name (the name is not in the pre-populated map)
C2_Witness ==
    /\ \E i \in DOMAIN pkg_state :
         /\ pkg_state[i] = "Skipped"
         /\ config.addresses_name[i] \notin DOMAIN config.deployed_addresses
    /\ report_info # <<>>

\* the step loads the manifest of package idx, and its table declares a name
\* that is neither in the AddressBook nor the package's own address_name
DependencyFault ==
    /\ tpc = "loop"
    /\ resolutions' = resolutions + 1
    /\ manifest'.loaded
    /\ \E n \in manifest'.names :
         n \notin DOMAIN deployed_addresses /\ n # config.addresses_name[idx]

\* the step ends the run body before any publish call of the package, with the
\* AddressBook and the records untouched
FatalBeforePublish ==
    /\ tpc' = "finished"
    /\ Aborted'
    /\ pkg_state'[idx] = "Failed"
    /\ calls' = calls
    /\ inflight' = {}
    /\ deployed_addresses' = deployed_addresses
    /\ report_info' = report_info

\* once the run body has ended no publish call is issued any more
NoPublishAfterEnd ==
    tpc = "finished" => (tpc' = "finished" /\ calls' = calls /\ inflight' = {})

\* C3 as stated: a package whose address table declares a name that is not in
\* the AddressBook and not its own address_name fails with the dependency-order
\* fault before any publish call; the failure is fatal to the run and leaves
\* the AddressBook and the accumulated records unchanged.
C3_AsStated ==
    [][ /\ DependencyFault => (FatalBeforePublish /\ result' = "DependencyOrderPanic")
        /\ NoPublishAfterEnd ]_vars

\* C3 amended: such a package fails before any publish call, fatally and with
\* the AddressBook and the records unchanged; the failure is the dependency-order
\* fault when the table holds the package's own address_name, and the
\* address-name-not-found error of get_named_addresses when it does not.
C3_DependencyOrder ==
    [][ /\ DependencyFault =>
             /\ FatalBeforePublish
             /\ result' = IF config.addresses_name[idx] \in manifest'.names
                          THEN "DependencyOrderPanic" ELSE "AddressNameNotFound"
        /\ NoPublishAfterEnd ]_vars

\* C3 witness: the run body ended on the dependency-order fault at a package
\* that follows a recorded one, with a later package never published
C3_Witness ==
    /\ result = "DependencyOrderPanic"
    /\ report_info # <<>>
    /\ calls[idx] = 0

DeployContractsReturned == pc = "returned" /\ ret # "ConfigInvariantError"

\* C5 as stated: every execution of deploy_contracts performs exactly one report
\* write before returning, on every exit path.
C5_AsStated == DeployContractsReturned => report_writes = 1

\* C5 amended: the report is written at most once; an execution that started the
\* run body returns only after exactly one report write, made after the body
\* ended (Ok, error or panic); an execution that returns before starting the
\* body (confirmation declined or failed, key or funding failure, profile
\* creation failure) has written no report.
C5_ReportOncePerStartedRun ==
    /\ report_writes <= 1
    /\ report_writes = 1 => tpc = "finished"
    /\ pc = "returned" => tpc \in {"idle", "finished"}
    /\ (pc = "returned" /\ tpc = "finished") => report_writes = 1
    /\ (pc = "returned" /\ tpc = "idle") => report_writes = 0

\* C5 witness: a run whose body aborted has returned after its one report write
C5_Witness ==
    /\ pc = "returned"
    /\ Aborted
    /\ report_writes = 1
    /\ report_file.written

\* C6 as stated: once the deployer profile has been created it is removed before
\* deploy_contracts returns, on every path.
C6_AsStated ==
    (pc = "returned" /\ profile_created) => DEPLOYER_PROFILE \notin store

\* C7 as stated: when the run body failed and the report write failed too, the
\* deployment error is returned; a report-write error is returned only when the
\* deployment succeeded.
C7_AsStated ==
    pc = "returned" =>
        /\ (write_failed /\ Aborted) =>
               ret = (IF result = "DependencyOrderPanic" THEN "JoinError" ELSE result)
        /\ ret = "ReportWriteError" => result = "Ok"

\* C8: when the first publish call of a package fails with PackageSizeExceeded
\* on Local or Devnet, no prompt is shown and no call is resubmitted, whatever
\* the non-interactive flag; the run body ends with an error and the package is
\* neither recorded nor bound.
C8_NoChunkedRetryOnLocalDevnet ==
    [][ (tpc = "publishing" /\ publish_result' = "PackageSizeExceeded"
            /\ config.network \in {"Local", "Devnet"})
        => /\ prompts' = prompts
           /\ calls' = calls
           /\ inflight' = {}
           /\ tpc' = "finished"
           /\ Aborted'
           /\ pkg_state'[idx] = "Failed"
           /\ report_info' = report_info
           /\ deployed_addresses' = deployed_addresses ]_vars

\* C8 witness: a non-interactive run on Devnet ended on a too large package
\* without a second call
C8_Witness ==
    /\ config.network = "Devnet"
    /\ config.yes
    /\ publish_result = "PackageSizeExceeded"
    /\ tpc = "finished"
    /\ calls[idx] = 1

\* the step issues a publish call with chunked publishing enabled
ChunkedIssued == \E c \in inflight' : c.chunked /\ c \notin inflight

\* C9: a chunked resubmission is issued exactly when the first publish call
\* returned PackageSizeExceeded, the network is Mainnet or Testnet, and the
\* non-interactive flag is set or the prompt was confirmed; it is the first call
\* with chunked publishing enabled; when it succeeds the package is Recorded
\* with the resubmission's summaries; declining the prompt ends the run body
\* with the error and without a resubmission.
C9_ChunkedRetryIff ==
    [][ /\ ChunkedIssued <=>
             /\ tpc = "publishing"
             /\ publish_result' = "PackageSizeExceeded"
             /\ config.network \in {"Mainnet", "Testnet"}
             /\ (config.yes \/ (prompts' = prompts + 1 /\ prompt_answer' = "confirm"))
        /\ ChunkedIssued =>
             /\ \E c \in inflight : inflight' = {[c EXCEPT !.chunked = TRUE]}
             /\ calls' = [calls EXCEPT ![idx] = 2]
        /\ (tpc = "retrying" /\ publish_result' = "Ok") =>
             /\ pkg_state'[idx] = "Recorded"
             /\ Len(report_info') = Len(report_info) + 1
             /\ Last(report_info').address_name = config.addresses_name[idx]
             /\ Last(report_info').tx_info = [pkg |-> idx, chunked |-> TRUE]
        /\ (tpc = "publishing" /\ prompts' = prompts + 1 /\ prompt_answer' = "decline") =>
             /\ tpc' = "finished"
             /\ result' = "PackageSizeExceeded"
             /\ calls' = calls
             /\ inflight' = {} ]_vars

\* C9 witness: an interactive run recorded a package from a confirmed chunked
\* resubmission
C9_Witness ==
    /\ ~config.yes
    /\ prompt_answer = "confirm"
    /\ \E k \in 1..Len(report_info) : report_info[k].tx_info.chunked

\* C10: a publish call that fails with an error other than PackageSizeExceeded
\* ends the run body with that error at once: the package is not bound in the
\* AddressBook, gets no record, is not retried, and no publish call is issued
\* afterwards.
C10_OtherPublishErrorFatal ==
    [][ /\ (tpc \in {"publishing", "retrying"} /\ publish_result' = "Other") =>
             /\ tpc' = "finished"
             /\ result' = "PublishError"
             /\ pkg_state'[idx] = "Failed"
             /\ idx' = idx
             /\ config.addresses_name[idx] \notin DOMAIN deployed_addresses'
             /\ report_info' = report_info
             /\ calls' = calls
             /\ prompts' = prompts
             /\ inflight' = {}
        /\ NoPublishAfterEnd ]_vars

\* C10 witness: the run body ended on a publish error of the first call of a
\* package that is not the last one
C10_Witness ==
    /\ result = "PublishError"
    /\ idx < NPkgs
    /\ calls[idx] = 1
    /\ calls[idx + 1] = 0

\* C11: a publish call that returns successfully binds the package's
\* address_name to the sender address in Account mode and to the object address
\* the call returned in Object mode, inserts exactly that one entry into the
\* AddressBook and appends exactly one TransactionRecord with that name and
\* address, and only then moves on to the next package.
C11_RecordOnSuccess ==
    [][ (tpc \in {"publishing", "retrying"} /\ publish_result' = "Ok") =>
          LET name == config.addresses_name[idx]
              addr == IF config.module_type = "Account" THEN sender_addr
                      ELSE ObjAddr(idx)
          IN  /\ name \notin DOMAIN deployed_addresses
              /\ DOMAIN deployed_addresses' = DOMAIN deployed_addresses \cup {name}
              /\ deployed_addresses'[name] = addr
              /\ \A x \in DOMAIN deployed_addresses :
                   deployed_addresses'[x] = deployed_addresses[x]
              /\ report_info' = Append(report_info,
                   [ module_path |-> config.modules_path[idx],
                     address_name |-> name,
                     deployed_at |-> addr,
                     tx_info |-> [pkg |-> idx, chunked |-> (tpc = "retrying")] ])
              /\ pkg_state'[idx] = "Recorded"
              /\ idx' = idx + 1
              /\ tpc' = "loop"
              /\ inflight' = {} ]_vars

\* C11 witness: an Object-mode run has recorded two packages, each at the object
\* address its publish call returned
C11_Witness ==
    /\ config.module_type = "Object"
    /\ Len(report_info) = 2
    /\ report_info[1].deployed_at = ObjAddr(1)
    /\ report_info[2].deployed_at = ObjAddr(2)
    /\ deployed_addresses[config.addresses_name[2]] = ObjAddr(2)

\* ------------------------------------------------------------- resumption
\* the address_name -> deployed_at map of a report's info list
ReportMap(info) ==
    [n \in {info[k].address_name : k \in 1..Len(info)} |->
        info[CHOOSE k \in 1..Len(info) : info[k].address_name = n].deployed_at]

\* m extended by the entries of extra
Merge(m, extra) ==
    [n \in DOMAIN m \cup DOMAIN extra |-> IF n \in DOMAIN extra THEN extra[n] ELSE m[n]]

\* the tool is invoked a second time over the same package list, with
\* --deployed-addresses taken from the first run's output report, alone or
\* together with the first run's own --deployed-addresses
Resume ==
    /\ pc = "returned"
    /\ run.n = 1
    /\ report_file.written
    /\ \E seed \in {"report", "report+prepopulated"} :
         /\ run' = [n |-> 2, seed |-> seed, first_ret |-> ret]
         /\ config' = [config EXCEPT !.deployed_addresses =
                IF seed = "report" THEN ReportMap(report_file.info)
                ELSE Merge(config.deployed_addresses, ReportMap(report_file.info))]
    /\ pc' = "main"
    /\ sender_addr' = NoAddr
    /\ store0' = store
    /\ profile_created' = FALSE
    /\ faucet_calls' = 0
    /\ tpc' = "idle"
    /\ lock' = "free"
    /\ idx' = 0
    /\ deployed_addresses' = EmptyMap
    /\ report_info' = <<>>
    /\ manifest' = NoManifest
    /\ inflight' = {}
    /\ publish_result' = "none"
    /\ prompt_answer' = "none"
    /\ calls' = [i \in DOMAIN calls |-> 0]
    /\ prompts' = 0
    /\ resolutions' = 0
    /\ pkg_state' = [i \in DOMAIN pkg_state |-> "Pending"]
    /\ result' = "none"
    /\ report_writes' = 0
    /\ write_failed' = FALSE
    /\ ret' = "none"
    /\ keygen_prompt' = "none"
    /\ release_calls' = 0
    /\ UNCHANGED <<store, report_file>>

\* configurations with a supplied key and both endpoints given
ResumeConfigs ==
    {c \in Configs : c.private_key = "Valid" /\ c.rest_url = "override"
                       /\ c.faucet_url = "override"}

InitResume == InitWith(ResumeConfigs, {{USER_PROFILE}})

NextResume == Next \/ Resume

SpecResume == InitResume /\ [][NextResume]_vars

NoPublishCalls ==
    /\ \A i \in DOMAIN calls : calls[i] = 0
    /\ inflight = {}

\* C12 as stated: whatever the first run did, a second run over the same list
\* seeded with the name -> deployed_at map of the first run's report issues no
\* publish call.
C12_AsStated == (run.n = 2 /\ run.seed = "report") => NoPublishCalls

\* C12 amended: when the first run returned success, a second run over the same
\* list seeded with the first run's pre-populated map extended by the
\* name -> deployed_at map of its report issues no publish call (and loads no
\* manifest): every package is skipped.
C12_ResumeAfterSuccess ==
    (run.n = 2 /\ run.seed = "report+prepopulated" /\ run.first_ret = "Ok") =>
        /\ NoPublishCalls
        /\ resolutions = 0
        /\ \A i \in DOMAIN pkg_state : pkg_state[i] \in {"Pending", "Skipped"}

\* C12 witness: such a second run has gone through a list of two packages, one
\* deployed by the first run and one it had skipped, and skipped both
C12_Witness ==
    /\ run.n = 2
    /\ run.seed = "report+prepopulated"
    /\ run.first_ret = "Ok"
    /\ result = "Ok"
    /\ Len(report_file.info) = 1
    /\ Len(pkg_state) = 2
    /\ \A i \in DOMAIN pkg_state : pkg_state[i] = "Skipped"

\* ------------------------------------------------------------- properties (2)
\* C13: a configuration whose modules_path and addresses_name differ in length
\* is rejected by main with an error before any faucet call, profile creation,
\* manifest load or publish call; the run body never starts.
C13_LengthMismatchRejected ==
    Len(config.modules_path) # Len(config.addresses_name) =>
        /\ pc \in {"main", "returned"}
        /\ pc = "returned" => ret = "ConfigInvariantError"
        /\ faucet_calls = 0
        /\ ~profile_created
        /\ store = store0
        /\ tpc = "idle"
        /\ resolutions = 0
        /\ NoPublishCalls
        /\ report_writes = 0

\* C13 witness: main has returned the length error
C13_Witness ==
    /\ pc = "returned"
    /\ ret = "ConfigInvariantError"
    /\ Len(config.modules_path) > Len(config.addresses_name)

HasDuplicate(q) == \E i \in 1..Len(q) : \E j \in 1..Len(q) : i # j /\ q[i] = q[j]

\* C14 as stated: a configuration whose addresses_name holds the same name twice
\* is never accepted: the sequencer never starts processing packages for it.
C14_AsStated ==
    HasDuplicate(config.addresses_name) => (tpc = "idle" /\ NoPublishCalls)

\* C15 as stated: when the key-generation prompt is declined the run returns
\* Ok with an empty report written, and no faucet call, profile creation or
\* publish call is made.
C15_AsStated ==
    keygen_prompt = "decline" =>
        /\ pc = "returned" /\ ret = "Ok"
        /\ report_file.written /\ report_file.info = <<>>
        /\ faucet_calls = 0 /\ ~profile_created /\ NoPublishCalls

\* C15 amended: when no private key is supplied, the non-interactive flag is
\* unset and the key-generation prompt is declined, the run returns Ok without
\* writing any report, and no faucet call, profile creation or publish call is
\* made (no sender address exists, the store is untouched, the run body never
\* starts).
C15_DeclineIsNoOp ==
    keygen_prompt = "decline" =>
        /\ config.private_key = "None" /\ ~config.yes
        /\ pc = "returned" /\ ret = "Ok"
        /\ report_writes = 0 /\ ~report_file.written
        /\ faucet_calls = 0 /\ sender_addr = NoAddr
        /\ ~profile_created /\ store = store0
        /\ tpc = "idle" /\ NoPublishCalls

\* C15 witness: the prompt was declined and the run has returned
C15_Witness ==
    /\ keygen_prompt = "decline"
    /\ pc = "returned"
    /\ Len(config.addresses_name) = 2

\* C16 as stated: a panic of the run body is turned into an error result of
\* deploy_contracts; the process does not abort, and the report write and then
\* the credential release are both executed after it.
C16_AsStated ==
    result = "DependencyOrderPanic" =>
        /\ pc # "panicked"
        /\ pc = "returned" =>
             /\ ret \notin {"none", "Ok"}
             /\ report_writes = 1
             /\ release_calls = 1

\* a REST or faucet endpoint has neither an override nor a network default
EndpointMissing ==
    \/ ResolveEndpoint(config.rest_url, rest_url(config.network)) = "None"
    \/ ResolveEndpoint(config.faucet_url, faucet_url(config.network)) = "None"

\* C18 as stated: when an endpoint has neither an override nor a default, the
\* run ends in an error returned to the caller before any publish call, in
\* account provisioning and in profile creation alike.
C18_AsStated ==
    EndpointMissing =>
        /\ pc # "panicked"
        /\ tpc = "idle"
        /\ NoPublishCalls
        /\ (pc = "returned" /\ ret # "ConfigInvariantError") => ret # "none"

\* the record list is held by the task exactly while run_core runs, and the
\* report is built only after the task has ended and released it
LockDiscipline ==
    /\ lock \in {"free", "task"}
    /\ lock = "task" <=> tpc \in {"loop", "publishing", "retrying"}
    /\ lock = "task" => (pc = "join" /\ report_writes = 0)
    /\ report_writes > 0 => (tpc = "finished" /\ lock = "free")
    /\ tpc = "idle" => report_info = <<>>
    /\ (pc = "join" /\ tpc = "finished") => (lock = "free" /\ ENABLED WriteReport)

\* C19: access to the record list is mutually exclusive with a single writer and
\* a single later reader: the task holds the lock for the whole loop, every
\* change of the list is made by the task under the lock or is the outer
\* caller's take after the task has ended (Ok, error or panic), and once the
\* task has ended the lock is free and the outer caller's acquisition can
\* proceed.
C19_SingleWriterThenReader ==
    /\ []LockDiscipline
    /\ [][ report_info' # report_info =>
             \/ (lock = "task" /\ lock' = "task" /\ pc = "join" /\ pc' = "join"
                   /\ Len(report_info') = Len(report_info) + 1)
             \/ (tpc = "finished" /\ lock = "free" /\ pc = "join" /\ pc' # "join"
                   /\ report_info' = <<>>) ]_vars

\* C19 witness: the task has panicked after recording a package, the lock is
\* free and the outer caller has not read the list yet
C19_Witness ==
    /\ result = "DependencyOrderPanic"
    /\ pc = "join"
    /\ lock = "free"
    /\ report_info # <<>>

\* C20: at most two publish calls are issued per package, and a chunked
\* resubmission that fails, with PackageSizeExceeded or any other error, ends
\* the run body with an error without a further prompt or call.
C20_AtMostOneRetry ==
    [][ /\ \A i \in DOMAIN calls : calls'[i] <= 2
        /\ (tpc = "retrying" /\ publish_result' # "Ok") =>
             /\ tpc' = "finished"
             /\ Aborted'
             /\ pkg_state'[idx] = "Failed"
             /\ calls' = calls
             /\ prompts' = prompts
             /\ inflight' = {}
             /\ report_info' = report_info
        /\ NoPublishAfterEnd ]_vars

\* C20 witness: the run body ended on a second PackageSizeExceeded, after two
\* calls for the package
C20_Witness ==
    /\ tpc = "finished"
    /\ result = "PackageSizeExceeded"
    /\ calls[idx] = 2
    /\ prompts = 0

\* ------------------------------------------------------------- credential store
\* configurations with a supplied key, both endpoints given, Account mode and
\* an empty pre-populated map
StoreConfigs ==
    {c \in ResumeConfigs : c.module_type = "Account"
                             /\ c.deployed_addresses = EmptyMap}

InitStore ==
    InitWith(StoreConfigs, SUBSET {USER_PROFILE, OTHER_PROFILE, DEPLOYER_PROFILE})

SpecStore == InitStore /\ [][Next]_vars

Released == release_calls = 1 /\ ret # "RemoveProfileError"

\* C17 as stated: after acquisition and release the store holds exactly the
\* profiles it held before the run, for every initial content.
C17_AsStated == Released => store = store0

\* C17 amended: every profile other than jayce_deployer is untouched at all
\* times, and after the release the store holds exactly the profiles it held
\* before the run except jayce_deployer (the whole store is gone when that was
\* the only entry); so the profiles are the same before and after for every
\* initial content without a profile named jayce_deployer, and a pre-existing
\* profile of that name is removed.
C17_ReleasePreservesOthers ==
    /\ store \ {DEPLOYER_PROFILE} = store0 \ {DEPLOYER_PROFILE}
    /\ Released => store = store0 \ {DEPLOYER_PROFILE}
    /\ (Released /\ DEPLOYER_PROFILE \notin store0) => store = store0

\* C17 witness: a run over a store with two user profiles has released the
\* transient profile and the two are still there
C17_Witness ==
    /\ Released
    /\ pc = "returned"
    /\ store0 = {USER_PROFILE, OTHER_PROFILE}
    /\ store = store0

\* ------------------------------------------------------------- properties (3)
\* C21: the substitution list of every publish call issued for a package holds
\* exactly the names of that package's address table (without the package's own
\* name in Object mode), each bound to the address the book holds for it at that
\* moment, so a dependency recorded earlier in the run is bound to its recorded
\* address; in Account mode the package's own name is bound to the sender; the
\* chunked resubmission carries the same list.
C21_SubstitutionList ==
    \A c \in inflight :
        LET own == config.addresses_name[c.pkg]
            named == c.named_addresses
        IN  /\ c.pkg = idx
            /\ manifest.loaded
            /\ own \in manifest.names
            /\ DOMAIN named = IF config.module_type = "Object"
                              THEN manifest.names \ {own} ELSE manifest.names
            /\ own \notin DOMAIN deployed_addresses
            /\ \A n \in DOMAIN named \ {own} :
                   /\ n \in DOMAIN deployed_addresses
                   /\ named[n] = deployed_addresses[n]
            /\ config.module_type = "Account" =>
                   (own \in DOMAIN named /\ named[own] = sender_addr)
            /\ config.module_type = "Object" => own \notin DOMAIN named
            /\ \A k \in 1..Len(report_info) :
                   report_info[k].address_name \in DOMAIN named =>
                       named[report_info[k].address_name] = report_info[k].deployed_at

\* C21 witness: in Object mode the call for the second package is in flight and
\* binds the first package's name to the object address recorded for it
C21_Witness ==
    /\ config.module_type = "Object"
    /\ Len(report_info) = 1
    /\ \E c \in inflight :
         /\ c.pkg = 2
         /\ DOMAIN c.named_addresses = {config.addresses_name[1]}
         /\ c.named_addresses[config.addresses_name[1]] = ObjAddr(1)

\* the records the run has accumulated: the shared list, or what the report
\* write took from it
Records == IF report_file.written THEN report_file.info ELSE report_info

RecordNames(info) == {info[k].address_name : k \in 1..Len(info)}

BookIsConfigPlusRecords ==
    (tpc # "idle" /\ ~write_failed) =>
        /\ deployed_addresses = Merge(config.deployed_addresses, ReportMap(Records))
        /\ \A n \in DOMAIN config.deployed_addresses :
               deployed_addresses[n] = config.deployed_addresses[n]
        /\ Cardinality(DOMAIN deployed_addresses)
              = Cardinality(DOMAIN config.deployed_addresses) + Len(Records)
        /\ \A j \in 1..Len(Records) : \A k \in 1..Len(Records) :
               Records[j].address_name = Records[k].address_name => j = k
        /\ RecordNames(Records) \cap DOMAIN config.deployed_addresses = {}

\* C22: during a run the book equals the configuration's pre-populated map
\* extended by one entry address_name -> deployed_at per record accumulated so
\* far; pre-populated entries keep their addresses, the record names are
\* pairwise distinct and disjoint from the pre-populated keys, the
\* configuration's own map is never changed, and every step keeps all entries
\* of the book.
C22_BookIsConfigPlusRecords ==
    /\ []BookIsConfigPlusRecords
    /\ [][ /\ config'.deployed_addresses = config.deployed_addresses
           /\ \A n \in DOMAIN deployed_addresses :
                  /\ n \in DOMAIN deployed_addresses'
                  /\ deployed_addresses'[n] = deployed_addresses[n] ]_vars

\* C22 witness: a run with a pre-populated entry has recorded two packages
C22_Witness ==
    /\ config.deployed_addresses # EmptyMap
    /\ Len(report_info) = 2
    /\ Cardinality(DOMAIN deployed_addresses) = 3
    /\ tpc = "loop"

\* every package of the list has been processed and its name is in the book
AllProcessed ==
    \A i \in DOMAIN pkg_state :
        /\ Finished(i)
        /\ config.addresses_name[i] \in DOMAIN deployed_addresses

\* C23 as stated: whenever the run has returned success, every package of the
\* list is Skipped or Recorded and its address_name is bound in the book.
C23_AsStated == (pc = "returned" /\ ret = "Ok") => AllProcessed

\* C23 amended: the run returns success only if key generation was declined
\* (then no package was processed: all are Pending) or the run body returned Ok
\* after the whole list with every package Skipped or Recorded and every
\* address_name bound in the book; a run body that did not return Ok stopped at
\* its first fatal error, with the packages before it Skipped or Recorded, the
\* later ones Pending and the records of the Recorded ones retained.
C23_CompletedOrAborted ==
    /\ (pc = "returned" /\ ret = "Ok") =>
           \/ keygen_prompt = "decline"
           \/ (result = "Ok" /\ AllProcessed)
    /\ keygen_prompt = "decline" =>
           (tpc = "idle" /\ \A i \in DOMAIN pkg_state : pkg_state[i] = "Pending")
    /\ result = "Ok" =>
           /\ AllProcessed
           /\ Len(config.modules_path) = Len(config.addresses_name)
           /\ idx = NPkgs + 1
    /\ Aborted =>
           /\ idx \in DOMAIN pkg_state
           /\ pkg_state[idx] = "Failed"
           /\ \A i \in DOMAIN pkg_state :
                  /\ i < idx => Finished(i)
                  /\ i > idx => pkg_state[i] = "Pending"
           /\ ~write_failed =>
                  RecordNames(Records) =
                      {config.addresses_name[i] :
                          i \in {j \in DOMAIN pkg_state : pkg_state[j] = "Recorded"}}

\* C23 witness: a run over two packages, one skipped and one recorded, has
\* returned success
C23_Witness ==
    /\ pc = "returned"
    /\ ret = "Ok"
    /\ keygen_prompt # "decline"
    /\ pkg_state = <<"Skipped", "Recorded">>

\* ------------------------------------------------------------- termination
\* configurations whose pre-populated map holds at most the first name
LiveConfigs == {c \in Configs : DOMAIN c.deployed_addresses \subseteq {NameList[1]}}

InitLive == InitWith(LiveConfigs, {{USER_PROFILE}})

\* every await of main, deploy_contracts and run_core returns: whenever the
\* program has a next step, it is eventually taken
SpecLive == InitLive /\ [][Next]_vars /\ WF_vars(Next)

\* the process has ended: main returned, or it panicked outside the task
Terminated == pc \in {"returned", "panicked"}

\* one step of the sequencer: the iterator moves forward by at most one package,
\* a package that has left Pending never returns to it, and the state of a
\* package whose turn is over is final
VisitsOnce ==
    /\ idx' >= idx
    /\ idx' <= idx + 1
    /\ resolutions' <= Len(pkg_state)
    /\ \A i \in DOMAIN pkg_state :
           /\ pkg_state[i] # "Pending" => pkg_state'[i] # "Pending"
           /\ pkg_state[i] \in {"Skipped", "Recorded", "Failed"} =>
                  pkg_state'[i] = pkg_state[i]
           /\ pkg_state'[i] # pkg_state[i] => (i = idx \/ i = idx')
           /\ (i > idx /\ i > idx') => pkg_state'[i] = "Pending"

\* C24: when every external call returns, every run terminates; a run body that
\* was started ends Completed (Ok) or Aborted (error or panic) before that; and
\* the sequencer goes through the list forward, one package at a time, without
\* returning to a package whose turn is over.
C24_Terminates ==
    /\ <>Terminated
    /\ (tpc # "idle") ~> (tpc = "finished" /\ (result = "Ok" \/ Aborted))
    /\ []((Terminated /\ tpc # "idle") =>
             (tpc = "finished" /\ (result = "Ok" \/ Aborted)))
    /\ [][VisitsOnce]_vars

\* C24 witness: a run over two packages has terminated after the sequencer went
\* through both
C24_Witness ==
    /\ Terminated
    /\ tpc = "finished"
    /\ result = "Ok"
    /\ idx = 3
    /\ pkg_state = <<"Recorded", "Skipped">>

====
